---- MODULE Spec2Model ----
(***************************************************************************)
(* napari-tissuumaps: the exporter of napari layers to a TissUUmaps        *)
(* project folder (convert.py, current revision under src/src/).           *)
(*                                                                         *)
(* The model follows one invocation: a layer list and an output path are   *)
(* handed to write_layers / tmap_writer, which creates the project folder, *)
(* writes the manifest built by generate_tmap_config, dispatches every     *)
(* layer in list order and finally writes the aggregated regions file.     *)
(*                                                                         *)
(*   Spec        one invocation on an empty disk                           *)
(*   SpecFail    the same, on a disk whose writes can fail                 *)
(*   SpecRepeat  invocations one after the other on the same path          *)
(*   SpecShapes  generate_shapes_dict on one shapes layer                  *)
(*   SpecHook    the hooks and the path check of the earlier revision      *)
(*                                                                         *)
(* Representation of the Python values:                                    *)
(*   str            TLA+ string (built with \o)                            *)
(*   list           sequence                                               *)
(*   dict           function on its key set (records for fixed keys)       *)
(*   float          floats that occur are exact binary fractions; a colour *)
(*                  component c is kept as the integer 4*c (quarters), an  *)
(*                  opacity o as 16*o (sixteenths), a coordinate as the    *)
(*                  integer it equals                                      *)
(*   a CSV line     the sequence of its comma-separated fields             *)
(*   a file         [kind, value]: the value serialised into it            *)
(*   a return value [kind, value]: kind "none" while nothing has returned, *)
(*                  "None" for Python's None                               *)
(***************************************************************************)
EXTENDS Integers, Sequences, FiniteSets, TLC

VARIABLES
    save_path,      \* argument `save_path` of tmap_writer, as a sequence of characters
    layer_data,     \* argument `layer_data`: the ordered list of layers
    pc,             \* position of the invocation in the code
    i,              \* 1-based position of the for loop of tmap_writer in layer_data
    dirs,           \* directories present on disk
    files,          \* files present on disk: path -> content
    savedfilenames, \* local list `savedfilenames` of tmap_writer
    regions,        \* local dict `regions` of tmap_writer
    tmap_cfg,       \* the manifest returned by generate_tmap_config
    internal_shapes,\* argument `internal_shapes` of generate_tmap_config
    warnings,       \* messages passed to logger.warning, in order
    result,         \* what the caller gets: [kind, value]
    disk_before     \* the disk as it was when the invocation began: [dirs, files]

vars == <<save_path, layer_data, pc, i, dirs, files, savedfilenames, regions,
          tmap_cfg, internal_shapes, warnings, result, disk_before>>

\* Longest layer list handed to the writer.
MaxLayers == 3

\* The empty dict {}.
EmptyDict == [k \in {} |-> k]

(***************************************************************************)
(* Conversions to text                                                     *)
(***************************************************************************)

Digits == <<"0", "1", "2", "3", "4", "5", "6", "7", "8", "9">>

HexDigits == <<"0", "1", "2", "3", "4", "5", "6", "7", "8", "9",
               "A", "B", "C", "D", "E", "F">>

\* str(n) for an int n >= 0
RECURSIVE IntToStr(_)
IntToStr(n) ==
    IF n < 10 THEN Digits[n + 1]
    ELSE IntToStr(n \div 10) \o Digits[(n % 10) + 1]

\* str(x) of the float x that equals the integer n >= 0, as numpy writes it
\* when np.block casts the coordinate columns to strings: "10.0"
FloatToStr(n) == IntToStr(n) \o ".0"

\* Format3f with two decimal places instead of three ("{:.2f}")
Format3fTwoPlaces(sixteenths) ==
    LET twice  == sixteenths * 25
        half   == twice \div 4
        t      == IF twice % 4 > 2 \/ (twice % 4 = 2 /\ half % 2 = 1) THEN half + 1 ELSE half
        frac   == t % 100
    IN  IntToStr(t \div 100) \o "." \o Digits[(frac \div 10) + 1] \o Digits[(frac % 10) + 1]

\* "{:.3f}".format(o) for the float o = sixteenths/16: the exact value is
\* rounded to thousandths, ties to even.
Format3f(sixteenths) ==
    LET twice  == sixteenths * 125            \* 2 * (1000 * o)
        q      == twice \div 2
        t      == IF twice % 2 = 1 /\ q % 2 = 1 THEN q + 1 ELSE q
        frac   == t % 1000
    IN  IntToStr(t \div 1000) \o "." \o Digits[(frac \div 100) + 1]
          \o Digits[((frac \div 10) % 10) + 1] \o Digits[(frac % 10) + 1]

\* f"{v:02X}" for 0 <= v <= 255
Format02X(v) == HexDigits[(v \div 16) + 1] \o HexDigits[(v % 16) + 1]

\* int(c * 255) and (255 * c).astype(int) for the float c = quarters/4:
\* the product is exact and the conversion truncates.
ColorByte(quarters) == (255 * quarters) \div 4

RECURSIVE JoinChars(_)
JoinChars(cs) == IF cs = <<>> THEN "" ELSE Head(cs) \o JoinChars(Tail(cs))

Reverse(s) == [j \in 1..Len(s) |-> s[Len(s) + 1 - j]]

(***************************************************************************)
(* Paths (pathlib.Path)                                                    *)
(***************************************************************************)

\* str(Path(save_path))
PathStr(cs) == JoinChars(cs)

\* position of the last "." of the name (name.rfind(".") + 1), 0 when absent
LastDot(cs) ==
    LET dots == {j \in 1..Len(cs) : cs[j] = "."}
    IN  IF dots = {} THEN 0 ELSE CHOOSE j \in dots : \A k \in dots : k <= j

\* Path(save_path).suffix: the final extension, "" when the name has no dot
\* inside it (a leading or a trailing dot starts no extension)
PathSuffix(cs) ==
    LET j == LastDot(cs)
    IN  IF 1 < j /\ j < Len(cs) THEN JoinChars(SubSeq(cs, j, Len(cs))) ELSE ""

\* Path(save_path).stem
PathStem(cs) ==
    LET j == LastDot(cs)
    IN  IF 1 < j /\ j < Len(cs) THEN JoinChars(SubSeq(cs, 1, j - 1))
        ELSE JoinChars(cs)

\* folder / name
PathJoin(folder, name) == folder \o "/" \o name

(***************************************************************************)
(* Layers: (data, meta, layer_type) as napari hands them to the writer     *)
(***************************************************************************)

Layer(type, name, opacity, visible, data, face_color, symbol, shape_type, properties) ==
    [type |-> type, name |-> name, opacity |-> opacity, visible |-> visible,
     data |-> data, face_color |-> face_color, symbol |-> symbol,
     shape_type |-> shape_type, properties |-> properties]

\* One entry of meta["properties"]: a named attribute, an array with one
\* value per item (np.ndarray) or a plain value.
Prop(key, isarray, values) == [key |-> key, isarray |-> isarray, values |-> values]

\* The layers the layer lists are drawn from (a list, so that layers of
\* different kinds are never compared with each other).
LayerPool ==
   << Layer("image", "Image", 8, TRUE, "astronaut", <<>>, "", <<>>, <<>>),
      Layer("image", "Image", 1, FALSE, "camera", <<>>, "", <<>>, <<>>),
      Layer("labels", "Labels", 11, TRUE, "labels.tif", <<>>, "", <<>>, <<>>),
      Layer("points", "Points", 16, TRUE, << <<3, 7>>, <<12, 5>> >>,
            << <<4, 0, 0, 4>>, <<0, 2, 4, 4>> >>, "star", <<>>,
            << Prop("gene", TRUE, <<"A", "B">>) >>),
      Layer("points", "Empty", 16, TRUE, <<>>, <<>>, "disc", <<>>, <<>>),
      Layer("shapes", "Shapes", 16, TRUE,
            << << <<0, 0>>, <<0, 10>>, <<10, 10>>, <<10, 0>> >> >>,
            << <<4, 0, 0, 4>> >>, "", <<"rectangle">>, <<>>),
      Layer("shapes", "Lines", 12, TRUE,
            << << <<1, 2>>, <<3, 4>>, <<5, 9>> >>,
               << <<2, 2>>, <<2, 6>>, <<7, 4>> >> >>,
            << <<0, 4, 0, 4>>, <<1, 3, 4, 2>> >>, "", <<"path", "polygon">>,
            << Prop("area", TRUE, <<0, 10>>), Prop("unit", FALSE, "px") >>),
      Layer("shapes", "NoShapes", 16, TRUE, <<>>, <<>>, "", <<>>, <<>>),
      Layer("volume", "Vol", 16, TRUE, "stack", <<>>, "", <<>>, <<>>) >>

\* The output paths the writer is called with.
PathPool ==
    { <<"p", ".", "t", "m", "a", "p">>,
      <<"p", ".", "T", "M", "A", "P">>,
      <<"p", ".", "t", "x", "t">> }

RECURSIVE SeqsUpTo(_, _)
SeqsUpTo(S, n) ==
    IF n = 0 THEN {<<>>}
    ELSE LET shorter == SeqsUpTo(S, n - 1)
         IN  shorter \cup {Append(s, x) : s \in {t \in shorter : Len(t) = n - 1}, x \in S}

\* dict[key] = value
DictPut(d, key, value) ==
    [k \in DOMAIN d \cup {key} |-> IF k = key THEN value ELSE d[k]]

\* d.update(e): every key of e is set in d
DictUpdate(d, e) ==
    [k \in DOMAIN d \cup DOMAIN e |-> IF k \in DOMAIN e THEN e[k] ELSE d[k]]

(***************************************************************************)
(* generate_shapes_dict                                                    *)
(***************************************************************************)

\* A float of the ellipse tessellation. The corner coordinates are integers,
\* so centre and semi-axes are exact halves; `twice` is 2 * the exact part.
\* `ulps` counts the units in the last place the float lies above (below, when
\* negative) that exact part, and `at` names the term axis * cos(theta) or
\* axis * sin(theta) still to be added when theta is neither end of linspace
\* (<<>> when nothing is to be added).
FloatAt(twice, ulps, at) == [twice |-> twice, ulps |-> ulps, at |-> at]

\* ellipse_center, in halves
ellipse_center(shape) == <<shape[1][1] + shape[3][1], shape[1][2] + shape[2][2]>>

\* ellipse_a and ellipse_b, in halves
ellipse_a(shape) == 2 * shape[2][1] - ellipse_center(shape)[1]

ellipse_b(shape) == 2 * shape[2][2] - ellipse_center(shape)[2]

Abs(n) == IF n < 0 THEN -n ELSE n

Max(m, n) == IF m < n THEN n ELSE m

\* N = np.maximum(int(np.ceil(2.0 * np.pi * max_axis / minimum_arc_distance)), 10)
\* with max_axis = halves / 2 and minimum_arc_distance = 3.0; pi is taken to
\* seven digits, which gives the same ceiling for every axis below 169.
EllipseN(shape) ==
    LET halves == Max(Abs(ellipse_a(shape)), Abs(ellipse_b(shape)))
    IN  Max((3141593 * halves + 2999999) \div 3000000, 10)

\* the largest power of two that is at most n >= 1
RECURSIVE PowerOfTwoBelow(_)
PowerOfTwoBelow(n) == IF n < 2 THEN 1 ELSE 2 * PowerOfTwoBelow(n \div 2)

\* axis * np.sin(thetas[-1]) + center for axis # 0: thetas[-1] is the double
\* nearest 2*pi, whose sine is -0x1.1a62633145c07p-52 (about -1.103064 * 2^-52)
\* and not 0. The sum is rounded to the nearest double; the result is the
\* number of units in the last place it ends above the centre. The doubles
\* next to center = center2 / 2 are 2^-52 * p / 2 apart, p the power of two
\* at or below center2, and half of that just below a power of two.
SineEndUlps(axis2, center2) ==
    LET p == PowerOfTwoBelow(center2)
        finer == IF axis2 > 0 /\ center2 = p THEN 2 ELSE 1
        n == (2 * Abs(axis2) * 1103064 * finer + p * 1000000) \div (2 * p * 1000000)
    IN  IF axis2 > 0 THEN -n ELSE n

\* Point k of N + 1 of the tessellation, theta = thetas[k] of
\* np.linspace(0, 2 * np.pi, N + 1): (a * cos(theta) + center[0],
\* b * sin(theta) + center[1]). cos is 1.0 at both ends, sin is 0.0 at the
\* first end only.
EllipsePoint(shape, k, N) ==
    LET c == ellipse_center(shape)
        a == ellipse_a(shape)
        b == ellipse_b(shape)
    IN  << IF a = 0 THEN FloatAt(c[1], 0, <<>>)
           ELSE IF k = 0 \/ k = N THEN FloatAt(c[1] + a, 0, <<>>)
           ELSE FloatAt(c[1], 0, <<"cos", a, k, N>>),
           IF b = 0 \/ k = 0 THEN FloatAt(c[2], 0, <<>>)
           ELSE IF k = N THEN FloatAt(c[2], SineEndUlps(b, c[2]), <<>>)
           ELSE FloatAt(c[2], 0, <<"sin", b, k, N>>) >>

\* The N + 1 points of an ellipse given by the corners of its bounding box.
EllipsePoints(shape) ==
    LET N == EllipseN(shape)
    IN  [j \in 1..(N + 1) |-> EllipsePoint(shape, j - 1, N)]

\* PointsToDraw walking a line back over all its points, the last one included
PointsToDrawLastTwice(shape_type, shape) ==
    IF shape_type = "ellipse" THEN EllipsePoints(shape)
    ELSE IF shape_type = "line" \/ shape_type = "path"
    THEN shape \o Reverse(shape)
    ELSE shape

\* The points drawn for one shape. An ellipse is tessellated; a line or a
\* path is walked forward and back (np.vstack([shape, shape[-2::-1]])); a
\* polygon or a rectangle is its own points.
PointsToDraw(shape_type, shape) ==
    IF shape_type = "ellipse" THEN EllipsePoints(shape)
    ELSE IF shape_type = "line" \/ shape_type = "path"
    THEN shape \o Reverse(SubSeq(shape, 1, Len(shape) - 1))
    ELSE shape

\* SwapColumns leaving the points in napari's (row, col) order
KeepColumns(points) == points

\* points_to_draw[:, [1, 0]].tolist()
SwapColumns(points) == [j \in 1..Len(points) |-> <<points[j][2], points[j][1]>>]

\* (255 * meta["face_color"][i, :3]).astype(int).tolist()
ShapeColor(rgba) == [c \in 1..3 |-> ColorByte(rgba[c])]

\* meta.get("properties", {}).copy() with every array replaced by its
\* element for shape n
ShapeExtra(properties, n) ==
    LET entry(key) == CHOOSE e \in {properties[j] : j \in 1..Len(properties)} : e.key = key
    IN  [key \in {properties[j].key : j \in 1..Len(properties)} |->
            IF entry(key).isarray THEN entry(key).values[n] ELSE entry(key).values]

\* ShapeFeature with the shapes numbered from 0 in the names (i for i + 1)
ShapeFeatureFromZero(layer, n) ==
    [type |-> "Feature",
     geometry |->
        [type |-> "MultiPolygon",
         coordinates |-> << << SwapColumns(PointsToDraw(layer.shape_type[n], layer.data[n])) >> >>],
     properties |->
        [name |-> layer.name \o "_" \o layer.shape_type[n] \o "_" \o IntToStr(n - 1),
         classification |-> [name |-> ""],
         color |-> ShapeColor(layer.face_color[n]),
         isLocked |-> FALSE,
         extra |-> ShapeExtra(layer.properties, n)]]

\* subshape_dict for shape n (1-based: i + 1 of the code)
ShapeFeature(layer, n) ==
    [type |-> "Feature",
     geometry |->
        [type |-> "MultiPolygon",
         coordinates |-> << << SwapColumns(PointsToDraw(layer.shape_type[n], layer.data[n])) >> >>],
     properties |->
        [name |-> layer.name \o "_" \o layer.shape_type[n] \o "_" \o IntToStr(n),
         classification |-> [name |-> ""],
         color |-> ShapeColor(layer.face_color[n]),
         isLocked |-> FALSE,
         extra |-> ShapeExtra(layer.properties, n)]]

generate_shapes_dict(layer) ==
    [type |-> "FeatureCollection",
     features |-> [n \in 1..Len(layer.data) |-> ShapeFeature(layer, n)]]

(***************************************************************************)
(* generate_tmap_config                                                    *)
(***************************************************************************)

\* filter_type(layer_data, type_filter), type_filter a set of type-tags
filter_type(layers, type_filter) ==
    LET keep(layer) == layer.type \in type_filter
    IN  SelectSeq(layers, keep)

\* The marker descriptor of one points layer.
Marker(layer) ==
    [autoLoad |-> TRUE,
     comment |-> layer.name,
     expectedCSV |-> [X_col |-> "x", Y_col |-> "y", color |-> "color",
                      group |-> "name", name |-> "", key |-> "letters"],
     path |-> "points/" \o layer.name \o ".csv",
     title |-> "Download markers (" \o layer.name \o ")"]

default_filters ==
    << [name |-> "Brightness", value |-> "0"],
       [name |-> "Contrast", value |-> "1"],
       [name |-> "Color", value |-> "0"] >>

\* The locals of generate_tmap_config before its loop over the layers.
ConfigStart ==
    [layers |-> <<>>, layer_filters |-> EmptyDict, layer_opacities |-> EmptyDict,
     layer_visibilities |-> EmptyDict, regions |-> EmptyDict, idx |-> 0]

\* TileSource naming the pyramid after the layer alone (<name>.dzi), without
\* the extension of the file written
TileSourceOfName(layer) ==
    [name |-> layer.name,
     tileSource |-> (IF layer.type = "image" THEN "images/" ELSE "labels/")
                        \o layer.name \o ".dzi"]

\* The entry appended to `layers` for an image or labels layer.
TileSource(layer) ==
    [name |-> layer.name,
     tileSource |-> (IF layer.type = "image" THEN "images/" ELSE "labels/")
                        \o layer.name \o ".tif.dzi"]

\* The branch shared by image and labels layers: one `layers` entry and the
\* three records at key str(idx), then idx += 1.
ConfigAddLayer(acc, layer) ==
    [acc EXCEPT
        !.layers = Append(@, TileSource(layer)),
        !.layer_filters = DictPut(@, IntToStr(acc.idx), default_filters),
        !.layer_opacities = DictPut(@, IntToStr(acc.idx), Format3f(layer.opacity)),
        !.layer_visibilities = DictPut(@, IntToStr(acc.idx), layer.visible),
        !.idx = @ + 1]

\* ConfigStep with idx counting every layer of the list (as enumerate would)
\* instead of the image and labels layers only
ConfigStepEveryLayer(acc, layer) ==
    IF layer.type = "image" \/ layer.type = "labels"
    THEN ConfigAddLayer(acc, layer)
    ELSE IF layer.type = "shapes"
    THEN [acc EXCEPT !.regions = DictUpdate(@, generate_shapes_dict(layer)), !.idx = @ + 1]
    ELSE [acc EXCEPT !.idx = @ + 1]

\* One iteration of the loop of generate_tmap_config.
ConfigStep(acc, layer) ==
    IF layer.type = "image" \/ layer.type = "labels"
    THEN ConfigAddLayer(acc, layer)
    ELSE IF layer.type = "shapes"
    THEN [acc EXCEPT !.regions = DictUpdate(@, generate_shapes_dict(layer))]
    ELSE acc

RECURSIVE ConfigLoop(_, _)
ConfigLoop(acc, layers) ==
    IF layers = <<>> THEN acc
    ELSE ConfigLoop(ConfigStep(acc, Head(layers)), Tail(layers))

\* ConfigRegions without the test for empty regions, as the earlier revision
\* had it: a regionFile is named although no shapes layer exists
ConfigRegionsUnchecked(regs, internal) ==
    IF internal THEN [regions |-> regs]
    ELSE [regionFile |-> "regions/regions.json"]

\* The tail of generate_tmap_config: `regions` or `regionFile`.
ConfigRegions(regs, internal) ==
    IF DOMAIN regs = {} THEN [regions |-> EmptyDict]
    ELSE IF internal THEN [regions |-> regs]
    ELSE [regionFile |-> "regions/regions.json"]

generate_tmap_config(filename, layers, internal) ==
    LET points == filter_type(layers, {"points"})
        markers == [j \in 1..Len(points) |-> Marker(points[j])]
        acc == ConfigLoop(ConfigStart, layers)
    IN  [compositeMode |-> "lighter",
         filename |-> filename,
         layers |-> acc.layers,
         filters |-> <<"Brightness", "Contrast", "Color">>,
         layerFilters |-> acc.layer_filters,
         layerOpacities |-> acc.layer_opacities,
         layerVisibilities |-> acc.layer_visibilities,
         markerFiles |-> markers,
         settings |-> << [function |-> "_autoLoadCSV", module |-> "dataUtils", value |-> "true"],
                         [function |-> "_globalMarkerScale", module |-> "glUtils", value |-> "7.5"] >>]
        @@ ConfigRegions(acc.regions, internal)

(***************************************************************************)
(* tmap_writer: the effect of each of its steps on the disk and its locals *)
(***************************************************************************)

\* What a step reads and writes: the disk, the locals of tmap_writer, the log
\* and whether an exception is propagating.
WriterState(d, f, saved, regs, warns, raised) ==
    [dirs |-> d, files |-> f, savedfilenames |-> saved, regions |-> regs,
     warnings |-> warns, raised |-> raised]

\* WriteFile refusing to replace a file that exists (as mode "x" would
\* without the error): the first content stays
WriteFileOnce(f, path, content) ==
    IF path \in DOMAIN f THEN f ELSE DictPut(f, path, content)

\* open(path, "w+"); write(content); close(): the file is created or replaced
WriteFile(f, path, content) == DictPut(f, path, content)

\* rgb2hex(color_vec)
rgb2hex(color_vec) ==
    "#" \o Format02X(ColorByte(color_vec[1])) \o Format02X(ColorByte(color_vec[2]))
        \o Format02X(ColorByte(color_vec[3]))

\* The lines written to a points CSV: the header, then one line per point.
PointsCsv(layer) ==
    LET props  == layer.properties
        header == <<"name", "x", "y", "color", "symbol">>
                      \o [j \in 1..Len(props) |-> props[j].key]
        row(n) == << layer.name, FloatToStr(layer.data[n][2]), FloatToStr(layer.data[n][1]),
                     rgb2hex(layer.face_color[n]), layer.symbol >>
                      \o [j \in 1..Len(props) |-> props[j].values[n]]
    IN  <<header>> \o [n \in 1..Len(layer.data) |-> row(n)]

\* layer_type == "image"
SaveImage(st, root, layer) ==
    LET path_image == PathJoin(PathJoin(root, "images"), layer.name \o ".tif")
    IN  [st EXCEPT
            !.dirs = @ \cup {PathJoin(root, "images")},
            !.files = WriteFile(@, path_image,
                                [kind |-> "tif", recolored |-> FALSE, value |-> layer.data]),
            !.savedfilenames = Append(@, path_image)]

\* The name recorded in savedfilenames for a points file: path_points.name,
\* the final component of the path.
SavedPointsName(path_points, filename) == filename

\* layer_type == "points". np.block raises a ValueError for a layer without
\* points: the (0, 1) coordinate columns are joined with the colour and
\* symbol arrays, which are empty 1-d arrays and are promoted to (1, 0).
SavePoints(st, root, layer) ==
    LET filename    == layer.name \o ".csv"
        path_points == PathJoin(PathJoin(root, "points"), filename)
    IN  IF Len(layer.data) = 0
        THEN [st EXCEPT !.dirs = @ \cup {PathJoin(root, "points")}, !.raised = TRUE]
        ELSE [st EXCEPT
                !.dirs = @ \cup {PathJoin(root, "points")},
                !.files = WriteFile(@, path_points,
                                    [kind |-> "csv", recolored |-> FALSE, value |-> PointsCsv(layer)]),
                !.savedfilenames = Append(@, SavedPointsName(path_points, filename))]

\* SaveLabels naming the file after a label value, as the earlier revision
\* did (labels/<name>_01.tif)
SaveLabelsPerValue(st, root, layer) ==
    LET path_label == PathJoin(PathJoin(root, "labels"), layer.name \o "_01.tif")
    IN  [st EXCEPT
            !.dirs = @ \cup {PathJoin(root, "labels")},
            !.files = WriteFile(@, path_label,
                                [kind |-> "tif", recolored |-> TRUE, value |-> layer.data]),
            !.savedfilenames = Append(@, path_label)]

\* layer_type == "labels": the raster is recoloured with the layer's colormap
SaveLabels(st, root, layer) ==
    LET path_label == PathJoin(PathJoin(root, "labels"), layer.name \o ".tif")
    IN  [st EXCEPT
            !.dirs = @ \cup {PathJoin(root, "labels")},
            !.files = WriteFile(@, path_label,
                                [kind |-> "tif", recolored |-> TRUE, value |-> layer.data]),
            !.savedfilenames = Append(@, path_label)]

\* AccumulateShapes writing regions.json at once, for every shapes layer,
\* instead of leaving it to the end of the loop
AccumulateShapesAndWrite(st, root, layer) ==
    LET shapes_path == PathJoin(PathJoin(root, "regions"), "regions.json")
        regs        == DictUpdate(st.regions, generate_shapes_dict(layer))
    IN  [st EXCEPT
            !.regions = regs,
            !.dirs = @ \cup {PathJoin(root, "regions")},
            !.files = WriteFile(@, shapes_path,
                                [kind |-> "json", recolored |-> FALSE, value |-> regs]),
            !.savedfilenames = Append(@, shapes_path)]

\* layer_type == "shapes"
AccumulateShapes(st, root, layer) ==
    [st EXCEPT !.regions = DictUpdate(@, generate_shapes_dict(layer))]

\* SkipUnsupported raising (NotImplementedError) instead of logging
UnsupportedRaises(st, root, layer) == [st EXCEPT !.raised = TRUE]

\* any other layer_type: logger.warning (the second literal of the message is
\* no f-string, so "{layer_type}" is logged as written)
SkipUnsupported(st, root, layer) ==
    [st EXCEPT !.warnings = Append(@,
        "Layer \"" \o layer.name \o "\" cannot be saved. This type of layer"
            \o " ({layer_type}) is not yet implemented.")]

\* The body of the for loop of tmap_writer for one layer.
Dispatch(st, root, layer) ==
    CASE layer.type = "image"  -> SaveImage(st, root, layer)
      [] layer.type = "points" -> SavePoints(st, root, layer)
      [] layer.type = "labels" -> SaveLabels(st, root, layer)
      [] layer.type = "shapes" -> AccumulateShapes(st, root, layer)
      [] OTHER                 -> SkipUnsupported(st, root, layer)

\* CreateFolder starting from a fresh folder: what the folder held is removed
CreateFolderFresh(st, root) == [st EXCEPT !.dirs = {root}, !.files = EmptyDict]

\* save_path.mkdir(parents=True, exist_ok=True)
CreateFolder(st, root) == [st EXCEPT !.dirs = @ \cup {root}]

\* SaveManifest without `regions = {}`: regions keeps what it held
SaveManifestKeepsRegions(st, root, cfg) ==
    [st EXCEPT
        !.files = WriteFile(@, PathJoin(root, "main.tmap"),
                            [kind |-> "json", recolored |-> FALSE, value |-> cfg]),
        !.savedfilenames = Append(@, PathJoin(root, "main.tmap"))]

\* The manifest is generated (internal_shapes keeps its default, False) and
\* written to main.tmap; `regions` starts empty.
SaveManifest(st, root, cfg) ==
    [st EXCEPT
        !.files = WriteFile(@, PathJoin(root, "main.tmap"),
                            [kind |-> "json", recolored |-> FALSE, value |-> cfg]),
        !.savedfilenames = Append(@, PathJoin(root, "main.tmap")),
        !.regions = EmptyDict]

\* "Saving the shapes": regions.json is written when `regions` is not empty.
SaveRegions(st, root) ==
    IF DOMAIN st.regions # {}
    THEN LET shapes_folder == PathJoin(root, "regions")
             shapes_path   == PathJoin(shapes_folder, "regions.json")
         IN  [st EXCEPT
                !.dirs = @ \cup {shapes_folder},
                !.files = WriteFile(@, shapes_path,
                                    [kind |-> "json", recolored |-> FALSE, value |-> st.regions]),
                !.savedfilenames = Append(@, shapes_path)]
    ELSE st

\* The for loop of tmap_writer over a layer list; an exception ends it.
RECURSIVE DispatchAll(_, _, _)
DispatchAll(st, root, layers) ==
    IF layers = <<>> \/ st.raised THEN st
    ELSE DispatchAll(Dispatch(st, root, Head(layers)), root, Tail(layers))

\* tmap_writer(save_path, layer_data) run on an empty disk: the disk, the
\* list of saved file names and the log it ends with.
tmap_writer(path, layers) ==
    LET root   == PathStr(path)
        cfg    == generate_tmap_config(PathStem(path), layers, FALSE)
        start  == WriterState({}, EmptyDict, <<>>, EmptyDict, <<>>, FALSE)
        looped == DispatchAll(SaveManifest(CreateFolder(start, root), root, cfg), root, layers)
    IN  IF looped.raised THEN looped ELSE SaveRegions(looped, root)

(***************************************************************************)
(* The invocation as a state machine                                       *)
(***************************************************************************)

\* str(save_path): the project folder
Root == PathStr(save_path)

\* The disk and the locals as the steps above read them.
Cur == WriterState(dirs, files, savedfilenames, regions, warnings, pc = "raised")

\* Becomes removing the project folder and all in it when an exception
\* propagates (a rollback)
BecomesOrRollsBack(st, next) ==
    /\ dirs' = IF st.raised THEN {} ELSE st.dirs
    /\ files' = IF st.raised THEN EmptyDict ELSE st.files
    /\ savedfilenames' = st.savedfilenames
    /\ regions' = st.regions
    /\ warnings' = st.warnings
    /\ pc' = IF st.raised THEN "raised" ELSE next
    /\ result' = IF st.raised THEN [kind |-> "exception", value |-> <<"ValueError">>] ELSE result

\* The disk and the locals become those of st; the invocation goes on at
\* `next` unless an exception propagates to the caller.
Becomes(st, next) ==
    /\ dirs' = st.dirs
    /\ files' = st.files
    /\ savedfilenames' = st.savedfilenames
    /\ regions' = st.regions
    /\ warnings' = st.warnings
    /\ pc' = IF st.raised THEN "raised" ELSE next
    /\ result' = IF st.raised THEN [kind |-> "exception", value |-> <<"ValueError">>] ELSE result

Init ==
    /\ save_path \in PathPool
    /\ \E picks \in SeqsUpTo(1..Len(LayerPool), MaxLayers) :
          layer_data = [j \in 1..Len(picks) |-> LayerPool[picks[j]]]
    /\ pc = "start"
    /\ i = 0
    /\ dirs = {}
    /\ files = EmptyDict
    /\ savedfilenames = <<>>
    /\ regions = EmptyDict
    /\ tmap_cfg = EmptyDict
    /\ internal_shapes = FALSE
    /\ warnings = <<>>
    /\ result = [kind |-> "none", value |-> <<>>]
    /\ disk_before = [dirs |-> {}, files |-> EmptyDict]

\* generate_tmap_config called on its own, with either value of internal_shapes
GenerateTmapConfigCall ==
    /\ pc = "start"
    /\ \E internal \in BOOLEAN :
          /\ internal_shapes' = internal
          /\ tmap_cfg' = generate_tmap_config(PathStem(save_path), layer_data, internal)
    /\ pc' = "config"
    /\ result' = [kind |-> "config", value |-> <<>>]
    /\ UNCHANGED <<save_path, layer_data, i, dirs, files, savedfilenames, regions, warnings,
                   disk_before>>

\* write_layers -> tmap_writer: savedfilenames = [], the project folder is made
CreateProjectFolder ==
    /\ pc = "start"
    /\ Becomes(CreateFolder([Cur EXCEPT !.savedfilenames = <<>>], Root), "manifest")
    /\ UNCHANGED <<save_path, layer_data, i, tmap_cfg, internal_shapes, disk_before>>

\* "Creation of the tmap file"
WriteManifest ==
    /\ pc = "manifest"
    /\ tmap_cfg' = generate_tmap_config(PathStem(save_path), layer_data, FALSE)
    /\ Becomes(SaveManifest(Cur, Root, tmap_cfg'), "loop")
    /\ i' = 1
    /\ UNCHANGED <<save_path, layer_data, internal_shapes, disk_before>>

\* The for loop has a layer left.
InLoop == pc = "loop" /\ i <= Len(layer_data)

\* One iteration of "Saving the files" leaves the disk and the locals as st;
\* the loop moves on unless the iteration raised.
Iteration(st) ==
    /\ Becomes(st, "loop")
    /\ i' = IF st.raised THEN i ELSE i + 1
    /\ UNCHANGED <<save_path, layer_data, tmap_cfg, internal_shapes, disk_before>>

DispatchImage == InLoop /\ layer_data[i].type = "image" /\ Iteration(SaveImage(Cur, Root, layer_data[i]))

DispatchPoints == InLoop /\ layer_data[i].type = "points" /\ Iteration(SavePoints(Cur, Root, layer_data[i]))

DispatchLabels == InLoop /\ layer_data[i].type = "labels" /\ Iteration(SaveLabels(Cur, Root, layer_data[i]))

DispatchShapes == InLoop /\ layer_data[i].type = "shapes" /\ Iteration(AccumulateShapes(Cur, Root, layer_data[i]))

DispatchOther ==
    /\ InLoop
    /\ layer_data[i].type \notin {"image", "points", "labels", "shapes"}
    /\ Iteration(SkipUnsupported(Cur, Root, layer_data[i]))

\* "Saving the shapes", once the loop is over
WriteRegions ==
    /\ pc = "loop"
    /\ i > Len(layer_data)
    /\ Becomes(SaveRegions(Cur, Root), "return")
    /\ UNCHANGED <<save_path, layer_data, i, tmap_cfg, internal_shapes, disk_before>>

\* "Convertion from Path to str" and return
Return ==
    /\ pc = "return"
    /\ pc' = "done"
    /\ result' = [kind |-> "list", value |-> savedfilenames]
    /\ UNCHANGED <<save_path, layer_data, i, dirs, files, savedfilenames, regions,
                   tmap_cfg, internal_shapes, warnings, disk_before>>

Next ==
    \/ GenerateTmapConfigCall
    \/ CreateProjectFolder
    \/ WriteManifest
    \/ DispatchImage
    \/ DispatchPoints
    \/ DispatchLabels
    \/ DispatchShapes
    \/ DispatchOther
    \/ WriteRegions
    \/ Return

Spec == Init /\ [][Next]_vars

(***************************************************************************)
(* The invocation on a disk whose writes can fail                          *)
(***************************************************************************)

\* The folder of a layer's category.
CategoryFolder(layer) ==
    PathJoin(Root, CASE layer.type = "image"  -> "images"
                     [] layer.type = "labels" -> "labels"
                     [] layer.type = "points" -> "points")

\* The file of an image, labels or points layer.
CategoryFile(layer) ==
    PathJoin(CategoryFolder(layer),
             layer.name \o (IF layer.type = "points" THEN ".csv" ELSE ".tif"))

\* Saving the layer the loop is at fails with an OSError: mkdir of the
\* category folder raises, or the folder is made and imsave / open / write
\* raises, before anything of the file is on disk or with the file left
\* incomplete. Nothing in tmap_writer catches the exception.
WriteFails ==
    /\ InLoop
    /\ layer_data[i].type \in {"image", "labels", "points"}
    /\ \E made \in {"nothing", "folder", "file"} :
          /\ dirs' = IF made = "nothing" THEN dirs
                     ELSE dirs \cup {CategoryFolder(layer_data[i])}
          /\ files' = IF made = "file"
                      THEN WriteFile(files, CategoryFile(layer_data[i]),
                                     [kind |-> "incomplete", recolored |-> FALSE, value |-> <<>>])
                      ELSE files
    /\ pc' = "raised"
    /\ result' = [kind |-> "exception", value |-> <<"OSError">>]
    /\ UNCHANGED <<save_path, layer_data, i, savedfilenames, regions, tmap_cfg,
                   internal_shapes, warnings, disk_before>>

NextFail == Next \/ WriteFails

SpecFail == Init /\ [][NextFail]_vars

(***************************************************************************)
(* Invocations one after the other on the same output path                 *)
(***************************************************************************)

\* Longest layer list of an invocation that may be followed by another.
MaxRepeatLayers == 2

\* The layers these lists are drawn from: the first image, the points
\* layer, the points layer without points and the rectangle.
RepeatPool == <<1, 4, 5, 6>>

RepeatLists ==
    {[j \in 1..Len(picks) |-> LayerPool[RepeatPool[picks[j]]]] :
        picks \in SeqsUpTo(1..Len(RepeatPool), MaxRepeatLayers)}

InitRepeat ==
    /\ save_path \in {p \in PathPool : PathSuffix(p) = ".tmap"}
    /\ layer_data \in RepeatLists
    /\ pc = "start"
    /\ i = 0
    /\ dirs = {}
    /\ files = EmptyDict
    /\ savedfilenames = <<>>
    /\ regions = EmptyDict
    /\ tmap_cfg = EmptyDict
    /\ internal_shapes = FALSE
    /\ warnings = <<>>
    /\ result = [kind |-> "none", value |-> <<>>]
    /\ disk_before = [dirs |-> {}, files |-> EmptyDict]

\* The caller invokes write_layers again with the same path and any layer
\* list, after the last invocation returned or raised. The disk is as it is;
\* the variables that model locals still hold the values of the last
\* invocation until the code assigns them.
InvokeAgain ==
    /\ pc \in {"done", "raised", "emptied"}
    /\ layer_data' \in RepeatLists
    /\ pc' = "start"
    /\ i' = 0
    /\ result' = [kind |-> "none", value |-> <<>>]
    /\ disk_before' = [dirs |-> dirs, files |-> files]
    /\ UNCHANGED <<save_path, dirs, files, savedfilenames, regions, tmap_cfg,
                   internal_shapes, warnings>>

\* Between two invocations the user empties the project folder.
EmptyFolder ==
    /\ pc \in {"done", "raised"}
    /\ pc' = "emptied"
    /\ dirs' = {Root}
    /\ files' = EmptyDict
    /\ disk_before' = [dirs |-> {Root}, files |-> EmptyDict]
    /\ UNCHANGED <<save_path, layer_data, i, savedfilenames, regions, tmap_cfg,
                   internal_shapes, warnings, result>>

\* The steps of tmap_writer that lists of these layers can take (they hold
\* no labels layer and no layer of an unrecognised type), and the two steps
\* of its caller.
NextRepeat ==
    \/ CreateProjectFolder
    \/ WriteManifest
    \/ DispatchImage
    \/ DispatchPoints
    \/ DispatchShapes
    \/ WriteRegions
    \/ Return
    \/ InvokeAgain
    \/ EmptyFolder

SpecRepeat == InitRepeat /\ [][NextRepeat]_vars

(***************************************************************************)
(* The earlier, hook-based revision (src/napari_tissuumaps): the hooks of  *)
(* _writer.py and the entry of its tmap_writer                             *)
(***************************************************************************)

SUPPORTED_FORMATS == <<"image", "points", "labels", "shapes">>

\* The paths the hooks are called with: those above, a name that is nothing
\* but the extension, and a name that goes on after it.
HookPaths ==
    PathPool \cup { <<".", "t", "m", "a", "p">>,
                    <<"p", ".", "t", "m", "a", "p", ".", "b", "a", "k">> }

\* path_by_suffix telling a project path by its final extension
\* (Path(path).suffix == ".tmap")
is_path_by_suffix(path) == PathSuffix(path) = ".tmap"

\* utils/io.py: path.endswith(".tmap")
is_path_tissuumaps_filename(path) ==
    /\ Len(path) >= 5
    /\ SubSeq(path, Len(path) - 4, Len(path)) = <<".", "t", "m", "a", "p">>

\* The layers the hooks are handed. The raster of a labels layer is the
\* sequence of its pixels, each the label value of the pixel.
HookLayerPool ==
   << Layer("image", "Image", 8, TRUE, "astronaut", <<>>, "", <<>>, <<>>),
      Layer("labels", "Labels", 11, TRUE, <<0, 2, 2, 5, 0>>, <<>>, "", <<>>, <<>>),
      Layer("labels", "Cells", 16, FALSE, <<4, 1, 9, 4, 7>>, <<>>, "", <<>>, <<>>),
      Layer("labels", "Cells", 4, TRUE, <<0, 3>>, <<>>, "", <<>>, <<>>),
      Layer("points", "Points", 16, TRUE, << <<3, 7>>, <<12, 5>> >>,
            << <<4, 0, 0, 4>>, <<0, 2, 4, 4>> >>, "star", <<>>, <<>>),
      Layer("points", "Empty", 16, TRUE, <<>>, <<>>, "disc", <<>>, <<>>),
      Layer("shapes", "Shapes", 16, TRUE,
            << << <<0, 0>>, <<0, 10>>, <<10, 10>>, <<10, 0>> >> >>,
            << <<4, 0, 0, 4>> >>, "", <<"rectangle">>, <<>>),
      Layer("volume", "Vol", 16, TRUE, "stack", <<>>, "", <<>>, <<>>) >>

TMAP_COLORS ==
    << <<100, 0, 0>>, <<0, 100, 0>>, <<0, 0, 100>>, <<100, 100, 0>>,
       <<0, 100, 100>>, <<100, 0, 100>>, <<100, 100, 100>> >>

\* np.unique(data): the values of the raster, each once, ascending
RECURSIVE Ascending(_)
Ascending(S) ==
    IF S = {} THEN <<>>
    ELSE LET least == CHOOSE v \in S : \A w \in S : v <= w
         IN  <<least>> \o Ascending(S \ {least})

np_unique(data) == Ascending({data[j] : j \in 1..Len(data)})

\* f"{j:02d}" for j >= 0
Format02d(j) == IF j < 10 THEN "0" \o IntToStr(j) ELSE IntToStr(j)

\* str(o) of the float o = sixteenths/16: the shortest decimal that reads
\* back as o, which for a multiple of 1/16 is its exact expansion without
\* trailing zeros, one decimal at least ("1.0", "0.5", "0.6875")
FloatStr(sixteenths) ==
    LET tenthousandths == (sixteenths % 16) * 625
        d(k) == Digits[((tenthousandths \div k) % 10) + 1]
        decimals == IF tenthousandths % 1000 = 0 THEN d(1000)
                    ELSE IF tenthousandths % 100 = 0 THEN d(1000) \o d(100)
                    ELSE IF tenthousandths % 10 = 0 THEN d(1000) \o d(100) \o d(10)
                    ELSE d(1000) \o d(100) \o d(10) \o d(1)
    IN  IntToStr(sixteenths \div 16) \o "." \o decimals

\* str(b) of a bool
BoolStr(b) == IF b THEN "True" ELSE "False"

\* ",".join(map(str, color))
ColorStr(color) == IntToStr(color[1]) \o "," \o IntToStr(color[2]) \o "," \o IntToStr(color[3])

\* default_filters of the earlier revision, with the Color filter appended
OldFilters(color) ==
    << [name |-> "Brightness", value |-> "0"],
       [name |-> "Contrast", value |-> "1"],
       [name |-> "Color", value |-> color] >>

\* The locals of the earlier generate_tmap_config before its loop.
OldConfigStart ==
    [layers |-> <<>>, layer_filters |-> EmptyDict, layer_opacities |-> EmptyDict,
     layer_visibilities |-> EmptyDict, regions |-> EmptyDict, idx |-> 0, used_colors |-> 0]

\* One entry of `layers` with its three records at key str(idx); idx += 1
OldConfigAdd(acc, entry, color, layer) ==
    [acc EXCEPT
        !.layers = Append(@, entry),
        !.layer_filters = DictPut(@, IntToStr(acc.idx), OldFilters(color)),
        !.layer_opacities = DictPut(@, IntToStr(acc.idx), FloatStr(layer.opacity)),
        !.layer_visibilities = DictPut(@, IntToStr(acc.idx), BoolStr(layer.visible)),
        !.idx = @ + 1]

\* OldConfigLabel taking the colour at idx instead of used_colors, so that
\* every image before a label skips a colour
OldConfigLabelColorAtIdx(acc, layer, j, label) ==
    IF label = 0 THEN acc
    ELSE [OldConfigAdd(acc,
                       [name |-> layer.name \o " (" \o IntToStr(label) \o ")",
                        tileSource |-> "labels/" \o layer.name \o "_" \o Format02d(j) \o ".tif.dzi"],
                       ColorStr(TMAP_COLORS[(acc.idx % Len(TMAP_COLORS)) + 1]),
                       layer)
            EXCEPT !.used_colors = @ + 1]

\* The body of `for j, label in enumerate(np.unique(data))` of the labels
\* branch (j from 0): nothing for label 0, else an entry and used_colors += 1
OldConfigLabel(acc, layer, j, label) ==
    IF label = 0 THEN acc
    ELSE [OldConfigAdd(acc,
                       [name |-> layer.name \o " (" \o IntToStr(label) \o ")",
                        tileSource |-> "labels/" \o layer.name \o "_" \o Format02d(j) \o ".tif.dzi"],
                       ColorStr(TMAP_COLORS[(acc.used_colors % Len(TMAP_COLORS)) + 1]),
                       layer)
            EXCEPT !.used_colors = @ + 1]

\* The labels branch: the loop over the unique values from position j on.
RECURSIVE OldConfigLabels(_, _, _)
OldConfigLabels(acc, layer, j) ==
    LET unique == np_unique(layer.data)
    IN  IF j >= Len(unique) THEN acc
        ELSE OldConfigLabels(OldConfigLabel(acc, layer, j, unique[j + 1]), layer, j + 1)

\* current_viewer().dims.range: (min, max, step) of the two axes shown
ViewerRange == << <<0, 64, 1>>, <<0, 32, 1>> >>

\* The least and the greatest of a set of numbers as the running comparisons
\* of generate_shapes_dict leave them: inf and -inf when there is no point.
Least(S) == IF S = {} THEN "inf" ELSE CHOOSE v \in S : \A w \in S : v <= w

Greatest(S) == IF S = {} THEN "-inf" ELSE CHOOSE v \in S : \A w \in S : w <= v

\* subshape_dict of the earlier generate_shapes_dict for shape n (i + 1 of
\* the code). A normalised coordinate, pixel / extent, is kept as the pair
\* <<pixel, extent>>; one extent divides all x and one all y, so the least
\* and the greatest are those of the pixels.
OldShape(layer, n) ==
    LET shape  == layer.data[n]
        width  == ViewerRange[1][2]
        height == ViewerRange[2][2]
        cols   == {shape[j][2] : j \in 1..Len(shape)}
        rows   == {shape[j][1] : j \in 1..Len(shape)}
        over(S, v, extent) == IF S = {} THEN v ELSE <<v, extent>>
    IN  [id |-> layer.name \o "_" \o IntToStr(n),
         points |-> << << [j \in 1..Len(shape) |->
                            [x |-> <<shape[j][2], height>>, y |-> <<shape[j][1], width>>]] >> >>,
         globalPoints |-> << << [j \in 1..Len(shape) |->
                            [x |-> shape[j][2], y |-> shape[j][1]]] >> >>,
         regionName |-> layer.name \o "_" \o IntToStr(n),
         regionClass |-> "None",
         barcodeHistogram |-> <<>>,
         len |-> 1,
         _xmin |-> over(cols, Least(cols), height), _xmax |-> over(cols, Greatest(cols), height),
         _ymin |-> over(rows, Least(rows), width), _ymax |-> over(rows, Greatest(rows), width),
         _gxmin |-> Least(cols), _gxmax |-> Greatest(cols),
         _gymin |-> Least(rows), _gymax |-> Greatest(rows),
         polycolor |-> rgb2hex(layer.face_color[n]),
         associatedPoints |-> <<>>,
         filled |-> TRUE]

\* generate_shapes_dict of the earlier revision: shape name -> subshape_dict
RECURSIVE OldShapesFrom(_, _)
OldShapesFrom(layer, n) ==
    IF n > Len(layer.data) THEN EmptyDict
    ELSE DictUpdate(DictPut(EmptyDict, layer.name \o "_" \o IntToStr(n), OldShape(layer, n)),
                    OldShapesFrom(layer, n + 1))

old_generate_shapes_dict(layer) == OldShapesFrom(layer, 1)

\* One iteration of the loop of the earlier generate_tmap_config.
OldConfigStep(acc, layer) ==
    IF layer.type = "image"
    THEN OldConfigAdd(acc, [name |-> layer.name,
                            tileSource |-> "images/" \o layer.name \o ".tif.dzi"],
                      "0", layer)
    ELSE IF layer.type = "labels" THEN OldConfigLabels(acc, layer, 0)
    ELSE IF layer.type = "shapes"
    THEN [acc EXCEPT !.regions = DictUpdate(@, old_generate_shapes_dict(layer))]
    ELSE acc

RECURSIVE OldConfigLoop(_, _)
OldConfigLoop(acc, layers) ==
    IF layers = <<>> THEN acc
    ELSE OldConfigLoop(OldConfigStep(acc, Head(layers)), Tail(layers))

\* generate_tmap_config of the earlier revision
old_generate_tmap_config(filename, layers, internal) ==
    LET points == filter_type(layers, {"points"})
        acc == OldConfigLoop(OldConfigStart, layers)
    IN  [compositeMode |-> "lighter",
         filename |-> filename,
         layers |-> acc.layers,
         filters |-> <<"Brightness", "Contrast", "Color">>,
         layerFilters |-> acc.layer_filters,
         layerOpacities |-> acc.layer_opacities,
         layerVisibilities |-> acc.layer_visibilities,
         markerFiles |-> [j \in 1..Len(points) |-> Marker(points[j])],
         settings |-> << [function |-> "_linkMarkersToChannels", module |-> "overlayUtils", value |-> TRUE],
                         [function |-> "_autoLoadCSV", module |-> "dataUtils", value |-> TRUE],
                         [function |-> "_markerScale2", module |-> "glUtils", value |-> "7.5"] >>]
        @@ (IF internal THEN [regions |-> acc.regions]
            ELSE [regionFile |-> "regions/regions.json"])

\* The earlier tmap_writer, layer_type == "image"
OldSaveImage(st, root, layer) ==
    [st EXCEPT
        !.dirs = @ \cup {PathJoin(root, "images")},
        !.files = WriteFile(@, PathJoin(PathJoin(root, "images"), layer.name \o ".tif"),
                            [kind |-> "tif", recolored |-> FALSE, value |-> layer.data])]

\* The lines of a points CSV of the earlier revision
OldPointsCsv(layer) ==
    <<<<"name", "x", "y", "color">>>>
        \o [n \in 1..Len(layer.data) |->
              << layer.name, FloatToStr(layer.data[n][2]), FloatToStr(layer.data[n][1]),
                 rgb2hex(layer.face_color[n]) >>]

\* layer_type == "points". As in the later revision np.block raises a
\* ValueError for a layer without points: the colour array is then an empty
\* 1-d array, promoted to (1, 0) beside the (0, 1) coordinate columns.
OldSavePoints(st, root, layer) ==
    IF Len(layer.data) = 0
    THEN [st EXCEPT !.dirs = @ \cup {PathJoin(root, "points")}, !.raised = TRUE]
    ELSE [st EXCEPT
            !.dirs = @ \cup {PathJoin(root, "points")},
            !.files = WriteFile(@, PathJoin(PathJoin(root, "points"), layer.name \o ".csv"),
                                [kind |-> "csv", recolored |-> FALSE, value |-> OldPointsCsv(layer)])]

\* label_img_uint8: 255 where the raster holds the label, 0 elsewhere
LabelMask(data, label) == [j \in 1..Len(data) |-> IF data[j] = label THEN 255 ELSE 0]

\* layer_type == "labels": one file per unique value but 0, from position
\* j of np.unique(data) on (`for i, label in enumerate(np.unique(data))`)
RECURSIVE OldSaveLabelsFrom(_, _, _, _)
OldSaveLabelsFrom(f, folder, layer, j) ==
    LET unique == np_unique(layer.data)
    IN  IF j >= Len(unique) THEN f
        ELSE OldSaveLabelsFrom(
                IF unique[j + 1] = 0 THEN f
                ELSE WriteFile(f, PathJoin(folder, layer.name \o "_" \o Format02d(j) \o ".tif"),
                               [kind |-> "tif", recolored |-> FALSE,
                                value |-> LabelMask(layer.data, unique[j + 1])]),
                folder, layer, j + 1)

OldSaveLabels(st, root, layer) ==
    [st EXCEPT
        !.dirs = @ \cup {PathJoin(root, "labels")},
        !.files = OldSaveLabelsFrom(@, PathJoin(root, "labels"), layer, 0)]

\* layer_type == "shapes"
OldAccumulateShapes(st, root, layer) ==
    [st EXCEPT !.regions = DictUpdate(@, old_generate_shapes_dict(layer))]

\* "Saving the shapes"
OldSaveRegions(st, root) ==
    IF DOMAIN st.regions # {}
    THEN [st EXCEPT
            !.dirs = @ \cup {PathJoin(root, "regions")},
            !.files = WriteFile(@, PathJoin(PathJoin(root, "regions"), "regions.json"),
                                [kind |-> "json", recolored |-> FALSE, value |-> st.regions])]
    ELSE st

\* The warning napari_get_writer logs for a layer type it does not support.
HookWarning(layer_type) ==
    "One of the layers's format (" \o layer_type
        \o ") is not supported when exporting to Tissuumaps. Skipped!"

InitHook ==
    /\ save_path \in HookPaths
    /\ \E picks \in SeqsUpTo(1..Len(HookLayerPool), MaxLayers) :
          layer_data = [j \in 1..Len(picks) |-> HookLayerPool[picks[j]]]
    /\ pc = "hook"
    /\ i = 0
    /\ dirs = {}
    /\ files = EmptyDict
    /\ savedfilenames = <<>>
    /\ regions = EmptyDict
    /\ tmap_cfg = EmptyDict
    /\ internal_shapes = FALSE
    /\ warnings = <<>>
    /\ result = [kind |-> "none", value |-> <<>>]
    /\ disk_before = [dirs |-> {}, files |-> EmptyDict]

\* napari_get_writer(path, layer_types), layer_types the type-tags of the
\* layers to save: None for a path that is no project path; otherwise one
\* warning per unsupported type and the writer function.
napari_get_writer ==
    /\ pc = "hook"
    /\ IF is_path_tissuumaps_filename(save_path)
       THEN LET layer_types == [j \in 1..Len(layer_data) |-> layer_data[j].type]
                unsupported(t) == \A k \in 1..Len(SUPPORTED_FORMATS) : SUPPORTED_FORMATS[k] # t
                skipped == SelectSeq(layer_types, unsupported)
            IN  /\ warnings' = warnings \o [j \in 1..Len(skipped) |-> HookWarning(skipped[j])]
                /\ result' = [kind |-> "function", value |-> <<"tmap_writer">>]
       ELSE /\ warnings' = warnings
            /\ result' = [kind |-> "None", value |-> <<"napari_get_writer">>]
    /\ pc' = "got_writer"
    /\ UNCHANGED <<save_path, layer_data, i, dirs, files, savedfilenames, regions,
                   tmap_cfg, internal_shapes, disk_before>>

\* napari calls the writer that napari_get_writer returned, with the path
\* and the layers.
CallReturnedWriter ==
    /\ pc = "got_writer"
    /\ result.kind = "function"
    /\ pc' = "hook_writer"
    /\ result' = [kind |-> "none", value |-> <<>>]
    /\ UNCHANGED <<save_path, layer_data, i, dirs, files, savedfilenames, regions,
                   tmap_cfg, internal_shapes, warnings, disk_before>>

\* napari_write_image, napari_write_labels, napari_write_points: each is
\* tmap_writer(path, [(data, meta, "<type>")]) for the one layer to save.
napari_write_layer ==
    /\ pc = "hook"
    /\ Len(layer_data) = 1
    /\ layer_data[1].type \in {"image", "labels", "points"}
    /\ pc' = "hook_writer"
    /\ UNCHANGED <<save_path, layer_data, i, dirs, files, savedfilenames, regions,
                   tmap_cfg, internal_shapes, warnings, result, disk_before>>

\* napari_write_shapes: "Not yet supported", None whatever the path
napari_write_shapes ==
    /\ pc = "hook"
    /\ Len(layer_data) = 1
    /\ layer_data[1].type = "shapes"
    /\ pc' = "hook_done"
    /\ result' = [kind |-> "None", value |-> <<"napari_write_shapes">>]
    /\ UNCHANGED <<save_path, layer_data, i, dirs, files, savedfilenames, regions,
                   tmap_cfg, internal_shapes, warnings, disk_before>>

\* tmap_writer of the earlier revision called by other code, with any path
\* and any layers.
TmapWriterCalled ==
    /\ pc = "hook"
    /\ pc' = "hook_writer"
    /\ UNCHANGED <<save_path, layer_data, i, dirs, files, savedfilenames, regions,
                   tmap_cfg, internal_shapes, warnings, result, disk_before>>

\* tmap_writer, "Sanity check": not a project path, return None
HookWriterRejects ==
    /\ pc = "hook_writer"
    /\ ~is_path_tissuumaps_filename(save_path)
    /\ pc' = "hook_done"
    /\ result' = [kind |-> "None", value |-> <<"tmap_writer">>]
    /\ UNCHANGED <<save_path, layer_data, i, dirs, files, savedfilenames, regions,
                   tmap_cfg, internal_shapes, warnings, disk_before>>

\* tmap_writer past the check: "The main tissuumaps project folder is
\* created"
HookWriterCreatesFolder ==
    /\ pc = "hook_writer"
    /\ is_path_tissuumaps_filename(save_path)
    /\ dirs' = dirs \cup {Root}
    /\ pc' = "hook_manifest"
    /\ UNCHANGED <<save_path, layer_data, i, files, savedfilenames, regions,
                   tmap_cfg, internal_shapes, warnings, result, disk_before>>

\* "Creation of the tmap file"; `regions` starts empty
HookWriteManifest ==
    /\ pc = "hook_manifest"
    /\ tmap_cfg' = old_generate_tmap_config(PathStem(save_path), layer_data, FALSE)
    /\ Becomes([Cur EXCEPT
                    !.files = WriteFile(@, PathJoin(Root, "main.tmap"),
                                        [kind |-> "json", recolored |-> FALSE, value |-> tmap_cfg']),
                    !.regions = EmptyDict],
               "hook_loop")
    /\ i' = 1
    /\ UNCHANGED <<save_path, layer_data, internal_shapes, disk_before>>

\* The for loop of the earlier tmap_writer has a layer left.
InHookLoop == pc = "hook_loop" /\ i <= Len(layer_data)

\* One iteration of "Saving the files" leaves the disk and the locals as st.
HookIteration(st) ==
    /\ Becomes(st, "hook_loop")
    /\ i' = IF st.raised THEN i ELSE i + 1
    /\ UNCHANGED <<save_path, layer_data, tmap_cfg, internal_shapes, disk_before>>

HookDispatchImage ==
    InHookLoop /\ layer_data[i].type = "image" /\ HookIteration(OldSaveImage(Cur, Root, layer_data[i]))

HookDispatchPoints ==
    InHookLoop /\ layer_data[i].type = "points" /\ HookIteration(OldSavePoints(Cur, Root, layer_data[i]))

HookDispatchLabels ==
    InHookLoop /\ layer_data[i].type = "labels" /\ HookIteration(OldSaveLabels(Cur, Root, layer_data[i]))

HookDispatchShapes ==
    InHookLoop /\ layer_data[i].type = "shapes"
        /\ HookIteration(OldAccumulateShapes(Cur, Root, layer_data[i]))

\* else: logging.warning, with the message of the later revision
HookDispatchOther ==
    /\ InHookLoop
    /\ layer_data[i].type \notin {"image", "points", "labels", "shapes"}
    /\ HookIteration(SkipUnsupported(Cur, Root, layer_data[i]))

\* "Saving the shapes", then return str(save_path)
HookWriteRegionsAndReturn ==
    /\ pc = "hook_loop"
    /\ i > Len(layer_data)
    /\ dirs' = OldSaveRegions(Cur, Root).dirs
    /\ files' = OldSaveRegions(Cur, Root).files
    /\ pc' = "hook_returned"
    /\ result' = [kind |-> "str", value |-> <<Root>>]
    /\ UNCHANGED <<save_path, layer_data, i, savedfilenames, regions, tmap_cfg,
                   internal_shapes, warnings, disk_before>>

NextHook ==
    \/ napari_get_writer
    \/ CallReturnedWriter
    \/ napari_write_layer
    \/ napari_write_shapes
    \/ TmapWriterCalled
    \/ HookWriterRejects
    \/ HookWriterCreatesFolder
    \/ HookWriteManifest
    \/ HookDispatchImage
    \/ HookDispatchPoints
    \/ HookDispatchLabels
    \/ HookDispatchShapes
    \/ HookDispatchOther
    \/ HookWriteRegionsAndReturn

SpecHook == InitHook /\ [][NextHook]_vars

(***************************************************************************)
(* generate_shapes_dict called on one shapes layer                         *)
(***************************************************************************)

\* Most points of a line, a path or a polygon.
MaxPoints == 3

\* Largest row and column of a point of a line, a path or a polygon; the
\* corners of rectangles and of the boxes of ellipses lie on a grid five
\* times as wide, which lets a semi-axis reach past the ten arcs every
\* ellipse gets at least.
MaxCoord == 1

GridPoints == (0..MaxCoord) \X (0..MaxCoord)

\* The four corners napari keeps for a rectangle or an ellipse dragged from
\* (r0, c0) to (r1, c1), in either direction; r0 = r1 or c0 = c1 is a box
\* without height or width.
Boxes ==
    LET ticks == {5 * j : j \in 0..(MaxCoord + 1)}
    IN  { << <<r0, c0>>, <<r0, c1>>, <<r1, c1>>, <<r1, c0>> >> :
            r0 \in ticks, c0 \in ticks, r1 \in ticks, c1 \in ticks }

\* The shapes a layer is drawn from: <<shape_type, data>>
ShapePool ==
    ({"line", "path", "polygon"} \X (SeqsUpTo(GridPoints, MaxPoints) \ {<<>>}))
        \cup ({"rectangle", "ellipse"} \X Boxes)

\* The shapes that precede the drawn one in its layer.
ShapesBefore ==
    { <<>>,
      << <<"rectangle", << <<0, 0>>, <<0, 10>>, <<10, 10>>, <<10, 0>> >> >> >>,
      << <<"path", << <<1, 2>>, <<3, 4>>, <<5, 9>> >> >>,
         <<"ellipse", << <<0, 10>>, <<0, 20>>, <<30, 20>>, <<30, 10>> >> >> >> }

\* meta["face_color"] of a layer of n shapes
FaceColors(n) ==
    [j \in 1..n |-> << <<4, 0, 0, 4>>, <<0, 2, 4, 4>>, <<1, 3, 4, 2>> >>[j]]

\* The shapes layer napari hands over for the shapes drawn.
ShapesLayer(shapes) ==
    Layer("shapes", "Drawn", 16, TRUE,
          [j \in 1..Len(shapes) |-> shapes[j][2]],
          FaceColors(Len(shapes)), "",
          [j \in 1..Len(shapes) |-> shapes[j][1]],
          << Prop("order", TRUE, [j \in 1..Len(shapes) |-> j]) >>)

InitShapes ==
    /\ save_path \in {p \in PathPool : PathSuffix(p) = ".tmap"}
    /\ \E before \in ShapesBefore, drawn \in ShapePool :
          layer_data = << ShapesLayer(Append(before, drawn)) >>
    /\ pc = "shapes"
    /\ i = 1
    /\ dirs = {}
    /\ files = EmptyDict
    /\ savedfilenames = <<>>
    /\ regions = EmptyDict
    /\ tmap_cfg = EmptyDict
    /\ internal_shapes = FALSE
    /\ warnings = <<>>
    /\ result = [kind |-> "none", value |-> <<>>]
    /\ disk_before = [dirs |-> {}, files |-> EmptyDict]

\* generate_shapes_dict(data, meta) called on the layer; `regions` holds what
\* it returns.
GenerateShapesDictCall ==
    /\ pc = "shapes"
    /\ regions' = generate_shapes_dict(layer_data[1])
    /\ pc' = "shapes_done"
    /\ result' = [kind |-> "shapes", value |-> <<>>]
    /\ UNCHANGED <<save_path, layer_data, i, dirs, files, savedfilenames,
                   tmap_cfg, internal_shapes, warnings, disk_before>>

NextShapes == GenerateShapesDictCall

SpecShapes == InitShapes /\ [][NextShapes]_vars

(***************************************************************************)
(* Properties                                                              *)
(***************************************************************************)

\* generate_tmap_config has returned: tmap_cfg is the manifest.
HasManifest == pc \in {"config", "loop", "return", "done", "raised"}

\* The image and labels layers of the list, in encounter order.
TileLayers == filter_type(layer_data, {"image", "labels"})

\* The keys of a dict read as integers (int(key)).
KeysAsInts(d) == {n \in 0..(Cardinality(DOMAIN d) + Len(layer_data)) : IntToStr(n) \in DOMAIN d}

\* C1 (index invariant): layerFilters, layerOpacities and layerVisibilities
\* have the same keys; read as integers the keys are exactly 0..k-1, k the
\* number of image and labels layers; and key n describes entry n of
\* `layers`: the n-th image or labels layer in encounter order, with its
\* name, opacity and visibility.
C1_IndexInvariant ==
    HasManifest =>
        LET k == Len(TileLayers)
        IN  /\ DOMAIN tmap_cfg.layerFilters = DOMAIN tmap_cfg.layerOpacities
            /\ DOMAIN tmap_cfg.layerOpacities = DOMAIN tmap_cfg.layerVisibilities
            /\ Cardinality(DOMAIN tmap_cfg.layerFilters) = k
            /\ KeysAsInts(tmap_cfg.layerFilters) = 0..(k - 1)
            /\ Len(tmap_cfg.layers) = k
            /\ \A n \in 0..(k - 1) :
                  /\ tmap_cfg.layers[n + 1].name = TileLayers[n + 1].name
                  /\ tmap_cfg.layers[n + 1].tileSource =
                        (IF TileLayers[n + 1].type = "image" THEN "images/" ELSE "labels/")
                            \o TileLayers[n + 1].name \o ".tif.dzi"
                  /\ tmap_cfg.layerOpacities[IntToStr(n)] = Format3f(TileLayers[n + 1].opacity)
                  /\ tmap_cfg.layerVisibilities[IntToStr(n)] = TileLayers[n + 1].visible

\* C1 witness: a manifest for an image, a points layer and a labels layer in
\* that order; the labels layer is recorded at key "1".
C1_Witness ==
    /\ HasManifest
    /\ Len(layer_data) = 3
    /\ layer_data[1].type = "image"
    /\ layer_data[2].type = "points"
    /\ layer_data[3].type = "labels"
    /\ DOMAIN tmap_cfg.layerOpacities = {"0", "1"}
    /\ tmap_cfg.layers[2].name = layer_data[3].name

\* The decimal text of t thousandths with three decimal places.
Thousandths(t) ==
    IntToStr(t \div 1000) \o "." \o Digits[((t % 1000) \div 100) + 1]
        \o Digits[((t \div 10) % 10) + 1] \o Digits[(t % 10) + 1]

\* t thousandths is the value of sixteenths/16 rounded to three decimal
\* places, a tie going to the even neighbour.
RoundsTo(sixteenths, t) ==
    LET err == 16 * t - 1000 * sixteenths       \* 16000 * (t/1000 - o)
    IN  \/ -8 < err /\ err < 8
        \/ (err = 8 \/ err = -8) /\ t % 2 = 0

\* C9 (per-layer records): every key of the manifest holds the default
\* filters Brightness 0, Contrast 1, Color 0 (whatever was recorded before
\* it), the opacity of its layer as text with exactly three decimal places,
\* and its visibility as a boolean; a single image layer "Image" with
\* opacity 0.5, visible, gives the manifest of the scenario.
C9_LayerRecords ==
    HasManifest =>
        /\ \A n \in 0..(Len(TileLayers) - 1) :
              LET key == IntToStr(n)
                  o   == TileLayers[n + 1].opacity
                  lo  == (1000 * o) \div 16
              IN  /\ tmap_cfg.layerFilters[key] =
                        << [name |-> "Brightness", value |-> "0"],
                           [name |-> "Contrast", value |-> "1"],
                           [name |-> "Color", value |-> "0"] >>
                  /\ \E t \in {lo, lo + 1} :
                        /\ RoundsTo(o, t)
                        /\ tmap_cfg.layerOpacities[key] = Thousandths(t)
                  /\ Len(tmap_cfg.layerOpacities[key]) = 5
                  /\ tmap_cfg.layerVisibilities[key] \in BOOLEAN
                  /\ tmap_cfg.layerVisibilities[key] = TileLayers[n + 1].visible
        /\ ( /\ Len(layer_data) = 1
             /\ layer_data[1].type = "image"
             /\ layer_data[1].name = "Image"
             /\ layer_data[1].opacity = 8
             /\ layer_data[1].visible )
           => /\ tmap_cfg.layers = << [name |-> "Image", tileSource |-> "images/Image.tif.dzi"] >>
              /\ tmap_cfg.layerOpacities = ("0" :> "0.500")
              /\ tmap_cfg.layerVisibilities = ("0" :> TRUE)

\* C9 witness: the manifest of the scenario has been generated.
C9_Witness ==
    /\ HasManifest
    /\ Len(layer_data) = 1
    /\ layer_data[1].type = "image"
    /\ layer_data[1].name = "Image"
    /\ layer_data[1].opacity = 8
    /\ layer_data[1].visible
    /\ DOMAIN tmap_cfg.layerFilters = {"0"}

\* tmap_writer is running or has ended (returned or raised).
InWriter == pc \in {"manifest", "loop", "return", "done", "raised"}

\* The files of the project folder.
MainTmap == PathJoin(Root, "main.tmap")

RegionsJson == PathJoin(PathJoin(Root, "regions"), "regions.json")

ImageTif(layer) == PathJoin(PathJoin(Root, "images"), layer.name \o ".tif")

LabelsTif(layer) == PathJoin(PathJoin(Root, "labels"), layer.name \o ".tif")

PointsCsvPath(layer) == PathJoin(PathJoin(Root, "points"), layer.name \o ".csv")

\* The shapes layers of the list, in order, and their number of shape records.
ShapesLayers == filter_type(layer_data, {"shapes"})

RECURSIVE CountShapes(_)
CountShapes(layers) ==
    IF layers = <<>> THEN 0 ELSE Len(Head(layers).data) + CountShapes(Tail(layers))

\* The features of all the shapes layers, in layer order then shape order.
RECURSIVE AllFeatures(_)
AllFeatures(layers) ==
    IF layers = <<>> THEN <<>>
    ELSE generate_shapes_dict(Head(layers)).features \o AllFeatures(Tail(layers))

\* C2 (path acceptance, as claimed): called with a path whose final
\* extension is not ".tmap", the writer of the current revision creates no
\* directory, writes no file and returns nothing.
C2_NoOpOnOtherExtension ==
    (InWriter /\ PathSuffix(save_path) # ".tmap") =>
        /\ dirs = {}
        /\ DOMAIN files = {}
        /\ pc # "raised"
        /\ pc = "done" => (result.kind = "none" \/ result.value = <<>>)

\* C3 (aggregation of shapes, as claimed): the regions document written by
\* tmap_writer, and the regions accumulated by generate_tmap_config, hold one
\* feature for every shape record of every shapes layer, in layer order then
\* shape order.
C3_AllShapesAggregated ==
    /\ (pc = "done" /\ RegionsJson \in DOMAIN files) =>
          /\ Len(files[RegionsJson].value.features) = CountShapes(ShapesLayers)
          /\ files[RegionsJson].value.features = AllFeatures(ShapesLayers)
    /\ (pc = "config" /\ internal_shapes /\ ShapesLayers # <<>>) =>
          /\ Len(tmap_cfg.regions.features) = CountShapes(ShapesLayers)
          /\ tmap_cfg.regions.features = AllFeatures(ShapesLayers)

\* C4 (returned list, as claimed): the list returned by tmap_writer is the
\* list of the paths of the files written by the invocation: every entry is
\* the path of a file on disk, and every file written is in the list.
C4_ReturnedPathsAreFilesWritten ==
    (pc = "done") =>
        /\ result.kind = "list"
        /\ \A j \in 1..Len(result.value) : result.value[j] \in DOMAIN files
        /\ \A path \in DOMAIN files : \E j \in 1..Len(result.value) : result.value[j] = path

\* The type-tags tmap_writer handles, and the layers of the list that carry one.
Known == {"image", "points", "labels", "shapes"}

KnownLayers == filter_type(layer_data, Known)

\* The number of layers the for loop has gone through (the one that raised
\* included).
Dispatched == IF pc \in {"start", "manifest", "config"} THEN 0
              ELSE IF pc = "raised" THEN i ELSE i - 1

\* The warning for an unrecognised layer: it quotes the layer's name.
WarningAbout(layer) ==
    "Layer \"" \o layer.name \o "\" cannot be saved. This type of layer"
        \o " ({layer_type}) is not yet implemented."

\* C5 (unrecognised type-tag): a layer with an unrecognised type-tag never
\* makes the writer raise; the writer ends with the disk, the returned list
\* and the outcome it has for the list without the unrecognised layers; the
\* manifest is the one of the list without them; and the log holds one
\* warning per unrecognised layer gone through, in order, each quoting the
\* layer's name.
C5_UnsupportedLayerSkipped ==
    /\ pc = "raised" => layer_data[i].type \in Known
    /\ LET skipped == SelectSeq(SubSeq(layer_data, 1, Dispatched),
                                LAMBDA layer : layer.type \notin Known)
       IN  warnings = [j \in 1..Len(skipped) |-> WarningAbout(skipped[j])]
    /\ HasManifest =>
          tmap_cfg = generate_tmap_config(PathStem(save_path), KnownLayers, internal_shapes)
    /\ pc \in {"done", "raised"} =>
          LET out == tmap_writer(save_path, KnownLayers)
          IN  /\ files = out.files
              /\ dirs = out.dirs
              /\ savedfilenames = out.savedfilenames
              /\ (pc = "raised") = out.raised
              /\ pc = "done" => result.value = out.savedfilenames

\* C5 witness: the writer has returned for a list with one unrecognised
\* layer and other layers; it logged one warning and returned other paths.
C5_Witness ==
    /\ pc = "done"
    /\ Len(layer_data) = 3
    /\ layer_data[2].type \notin Known
    /\ layer_data[1].type = "image"
    /\ layer_data[3].type = "labels"
    /\ Len(warnings) = 1
    /\ Len(result.value) = 3

\* No two layers of the same category share a name.
UniqueNames ==
    \A j, k \in 1..Len(layer_data) :
        (j # k /\ layer_data[j].type = layer_data[k].type)
            => layer_data[j].name # layer_data[k].name

\* The layers of the list with a given type-tag, as a set of positions.
LayersOf(type) == {j \in 1..Len(layer_data) : layer_data[j].type = type}

OneRegionsKey ==
    ("regions" \in DOMAIN tmap_cfg) # ("regionFile" \in DOMAIN tmap_cfg)

\* What the manifest says of the regions when shapes are present.
RegionsPresent ==
    IF internal_shapes
    THEN /\ "regions" \in DOMAIN tmap_cfg
         /\ DOMAIN tmap_cfg.regions = {"type", "features"}
         /\ tmap_cfg.regions.type = "FeatureCollection"
    ELSE /\ "regionFile" \in DOMAIN tmap_cfg
         /\ tmap_cfg.regionFile = "regions/regions.json"

\* What the manifest says of the regions when there are none.
RegionsAbsent ==
    /\ "regions" \in DOMAIN tmap_cfg
    /\ DOMAIN tmap_cfg.regions = {}
    /\ "regionFile" \notin DOMAIN tmap_cfg

ScenarioRectangle == << <<0, 0>>, <<0, 10>>, <<10, 10>>, <<10, 0>> >>

ScenarioRing == << <<0, 0>>, <<10, 0>>, <<10, 10>>, <<0, 10>> >>

\* The loop of tmap_writer has just accumulated a shapes layer made of the
\* rectangle of the scenario with face_color [1, 0, 0, 1]: `regions` is what
\* generate_shapes_dict returned for it.
ScenarioSerialized ==
    /\ pc = "loop"
    /\ i > 1
    /\ layer_data[i - 1].type = "shapes"
    /\ layer_data[i - 1].shape_type = <<"rectangle">>
    /\ layer_data[i - 1].data = <<ScenarioRectangle>>
    /\ layer_data[i - 1].face_color = << <<4, 0, 0, 4>> >>

\* C8 as claimed: the feature of the scenario has geometry.coordinates equal
\* to [[[0,0],[10,0],[10,10],[0,10]]] and color [255,0,0].
C8_Original ==
    ScenarioSerialized =>
        /\ Len(regions.features) = 1
        /\ regions.features[1].geometry.coordinates = <<ScenarioRing>>
        /\ regions.features[1].properties.color = <<255, 0, 0>>

\* C8 (amended): for the rectangle of the scenario generate_shapes_dict gives
\* exactly one feature, of geometry type MultiPolygon, whose
\* geometry.coordinates is [[[[0,0],[10,0],[10,10],[0,10]]]], one polygon of
\* one ring holding the points in input order with row and col swapped, and
\* whose properties.color is [255,0,0].
C8_RectangleScenario ==
    ScenarioSerialized =>
        /\ Len(regions.features) = 1
        /\ regions.features[1].geometry.type = "MultiPolygon"
        /\ regions.features[1].geometry.coordinates = << <<ScenarioRing>> >>
        /\ regions.features[1].properties.color = <<255, 0, 0>>

\* C8 witness: the scenario has been serialised.
C8_Witness ==
    /\ ScenarioSerialized
    /\ Len(regions.features[1].geometry.coordinates[1][1]) = 4

\* C10 (points CSV, as claimed): for every points layer the loop has gone
\* through, the CSV holds the header name,x,y,color,symbol and the property
\* names, then one row per point in input order, with x the point's column 1
\* and y its column 0, every row as long as the header.
C10_PointsCsv ==
    \A j \in 1..Dispatched :
        layer_data[j].type = "points" =>
            LET layer == layer_data[j]
                n     == Len(layer.data)
                path  == PointsCsvPath(layer)
            IN  /\ path \in DOMAIN files
                /\ LET lines == files[path].value
                   IN  /\ Len(lines) = n + 1
                       /\ lines[1] = <<"name", "x", "y", "color", "symbol">>
                                       \o [p \in 1..Len(layer.properties) |-> layer.properties[p].key]
                       /\ \A r \in 1..n :
                             /\ lines[r + 1][2] = FloatToStr(layer.data[r][2])
                             /\ lines[r + 1][3] = FloatToStr(layer.data[r][1])
                             /\ Len(lines[r + 1]) = Len(lines[1])

(***************************************************************************)
(* Shapes                                                                  *)
(***************************************************************************)

\* generate_shapes_dict has returned for the layer handed to it.
ShapesDone == pc = "shapes_done"

\* The ring emitted for shape n: geometry.coordinates[0][0] of feature n.
Ring(n) == regions.features[n].geometry.coordinates[1][1]

\* The shapes of the layer that are of one of the given types.
ShapesOfType(types) ==
    {n \in 1..Len(layer_data[1].data) : layer_data[1].shape_type[n] \in types}

\* C11: the ring of a line or a path of k >= 1 points has 2k - 1 points: the
\* k input points in order, then the input points k-1 down to 1, each as
\* [col, row]; point j equals point 2k - 2 - j (counted from 0).
C11_LineRing ==
    ShapesDone =>
        \A n \in ShapesOfType({"line", "path"}) :
            LET shape == layer_data[1].data[n]
                k == Len(shape)
            IN  /\ k >= 1
                /\ Len(Ring(n)) = 2 * k - 1
                /\ \A j \in 1..k : Ring(n)[j] = <<shape[j][2], shape[j][1]>>
                /\ \A j \in 1..(k - 1) : Ring(n)[k + j] = <<shape[k - j][2], shape[k - j][1]>>
                /\ \A j \in 0..(2 * k - 2) : Ring(n)[j + 1] = Ring(n)[(2 * k - 2 - j) + 1]

\* A layer with a line of a single point and a path of three points that
\* ends away from where it starts has been converted.
C11_Witness ==
    /\ ShapesDone
    /\ \E n \in ShapesOfType({"line"}) : Len(layer_data[1].data[n]) = 1
    /\ \E n \in ShapesOfType({"path"}) :
          /\ Len(layer_data[1].data[n]) = 3
          /\ layer_data[1].data[n][1] # layer_data[1].data[n][3]

\* The semi-axes of ellipse n, in halves, and the larger of their lengths.
LongerAxis(n) ==
    LET shape == layer_data[1].data[n]
    IN  Max(Abs(2 * shape[2][1] - (shape[1][1] + shape[3][1])),
            Abs(2 * shape[2][2] - (shape[1][2] + shape[2][2])))

\* C12: the ring of every ellipse, boxes without width or height included,
\* has N + 1 >= 11 points, N the larger of 10 and the least integer with
\* 3.0 * N >= 2 * pi * max(|a|, |b|), and its first point equals its last.
C12_EllipseRing ==
    ShapesDone =>
        \A n \in ShapesOfType({"ellipse"}) :
            LET N == Len(Ring(n)) - 1
            IN  /\ N >= 10
                /\ 3000000 * N >= 3141593 * LongerAxis(n)
                /\ N = 10 \/ 3000000 * (N - 1) < 3141593 * LongerAxis(n)
                /\ Ring(n)[1] = Ring(n)[N + 1]

\* Ring n holds, point for point, the column and then the row of what is
\* drawn for a shape of the given type with the given data.
RingSwapped(n, type, shape) ==
    LET k == Len(shape)
        swapped(j) == <<shape[j][2], shape[j][1]>>
        rows == {shape[1][1] + shape[3][1], 2 * shape[2][1]}
        cols == {shape[1][2] + shape[2][2]}
    IN  CASE type \in {"polygon", "rectangle"} ->
                /\ Len(Ring(n)) = k
                /\ \A j \in 1..k : Ring(n)[j] = swapped(j)
          [] type \in {"line", "path"} ->
                /\ Len(Ring(n)) = 2 * k - 1
                /\ \A j \in 1..k : Ring(n)[j] = swapped(j) /\ Ring(n)[2 * k - j] = swapped(j)
          [] type = "ellipse" ->
                /\ Len(Ring(n)) >= 11
                /\ \A j \in 1..Len(Ring(n)) :
                      /\ Ring(n)[j][1].twice \in cols
                      /\ Ring(n)[j][1].at = <<>> \/ Ring(n)[j][1].at[1] = "sin"
                      /\ Ring(n)[j][2].twice \in rows
                      /\ Ring(n)[j][2].at = <<>> \/ Ring(n)[j][2].at[1] = "cos"

\* C13: generate_shapes_dict yields one feature per shape, in input order;
\* feature i is named <layer name>_<shape type i>_<i>, is drawn as shapes of
\* type i are and carries face colour i; every point is [col, row], whatever
\* the shape type.
C13_FeaturePerShape ==
    ShapesDone =>
        LET layer == layer_data[1]
            features == regions.features
        IN  /\ DOMAIN features = 1..Len(layer.data)
            /\ \A n \in 1..Len(layer.data) :
                  /\ features[n].properties.name
                        = "Drawn_" \o layer.shape_type[n] \o "_" \o <<"1", "2", "3">>[n]
                  /\ features[n].properties.extra.order = n
                  /\ features[n].properties.color
                        = [c \in 1..3 |-> (255 * layer.face_color[n][c]) \div 4]
                  /\ features[n].geometry.coordinates = << << Ring(n) >> >>
                  /\ RingSwapped(n, layer.shape_type[n], layer.data[n])

\* A layer of three shapes of three types and three colours has been
\* converted, its last shape a polygon whose points have row # col.
C13_Witness ==
    /\ ShapesDone
    /\ layer_data[1].shape_type = <<"path", "ellipse", "polygon">>
    /\ Len(layer_data[1].data[3]) = 3
    /\ \A j \in 1..3 : layer_data[1].data[3][j][1] # layer_data[1].data[3][j][2]
    /\ Cardinality({layer_data[1].face_color[n] : n \in 1..3}) = 3

(***************************************************************************)
(* Order of the writes, failures, files sharing a name                     *)
(***************************************************************************)

\* The file a layer is written to, for the layers that have one.
PayloadPath(layer) ==
    CASE layer.type = "image"  -> ImageTif(layer)
      [] layer.type = "labels" -> LabelsTif(layer)
      [] layer.type = "points" -> PointsCsvPath(layer)

\* The files an invocation writes for a layer list, in the order claimed:
\* main.tmap, the payload files in list order, regions.json.
WriteOrder(layers) ==
    LET payloads == filter_type(layers, {"image", "labels", "points"})
    IN  <<MainTmap>> \o [j \in 1..Len(payloads) |-> PayloadPath(payloads[j])]
            \o (IF filter_type(layers, {"shapes"}) = <<>> THEN <<>> ELSE <<RegionsJson>>)

\* The entry of the returned list for a file written: its path, or for a
\* points file the final component of its path.
NamedBy(entry, path) ==
    entry = path \/ path = PathJoin(PathJoin(Root, "points"), entry)

\* C16: at every moment of an invocation the writes made so far are the
\* first ones of the fixed order: nothing exists before the project folder,
\* main.tmap comes first, the payload files follow in list order, and
\* regions.json comes last, once the loop is over; savedfilenames, which
\* becomes the returned list, names the files in that order.
C16_WriteOrder ==
    LET order   == WriteOrder(layer_data)
        written == Len(savedfilenames)
    IN  /\ (dirs # {} \/ DOMAIN files # {}) => Root \in dirs
        /\ written <= Len(order)
        /\ DOMAIN files = {order[j] : j \in 1..written}
        /\ \A j \in 1..written : NamedBy(savedfilenames[j], order[j])
        /\ written =
              CASE pc \in {"start", "config", "manifest"} -> 0
                [] pc \in {"loop", "raised"} ->
                      1 + Len(filter_type(SubSeq(layer_data, 1, i - 1),
                                          {"image", "labels", "points"}))
                [] pc \in {"return", "done"} -> Len(order)
        /\ RegionsJson \in DOMAIN files => pc \in {"return", "done"}
        /\ pc = "done" => /\ written = Len(order)
                          /\ result.value = savedfilenames

\* An invocation has returned after writing main.tmap, three payload files
\* of three categories and regions.json.
C16_Witness ==
    /\ pc = "done"
    /\ Len(layer_data) = 3
    /\ Cardinality({layer_data[j].type : j \in 1..3} \cap {"image", "labels", "points"}) = 2
    /\ \E j \in 1..2 : layer_data[j].type = "shapes"
    /\ Len(result.value) = 4

Payloads == {"image", "labels", "points"}

\* The number of layers with one of the given type-tags among the first j.
CountUpTo(j, types) == Len(filter_type(SubSeq(layer_data, 1, j), types))

\* The pairs of layers of one category that share a name.
SameNamePairs ==
    {jk \in (1..Len(layer_data)) \X (1..Len(layer_data)) :
        /\ jk[1] < jk[2]
        /\ layer_data[jk[1]].type \in Payloads
        /\ layer_data[jk[1]].type = layer_data[jk[2]].type
        /\ layer_data[jk[1]].name = layer_data[jk[2]].name}

\* C18: layers of one category sharing a name cause no error and no
\* warning; the later layer's file replaces the earlier one's, so that one
\* file with the later payload remains; the manifest has an entry for each
\* of the two, with the same tileSource or marker path; and the returned
\* list names the same file twice.
C18_SameName ==
    /\ pc = "raised" => layer_data[i].type = "points" /\ Len(layer_data[i].data) = 0
    /\ pc = "done" =>
          /\ Len(warnings) = Len(layer_data) - CountUpTo(Len(layer_data), Known)
          /\ Len(tmap_cfg.layers) = CountUpTo(Len(layer_data), {"image", "labels"})
          /\ Len(tmap_cfg.markerFiles) = CountUpTo(Len(layer_data), {"points"})
          /\ \A jk \in SameNamePairs :
                LET first == layer_data[jk[1]]
                    later == layer_data[jk[2]]
                    last  == CHOOSE k \in jk[2]..Len(layer_data) :
                                /\ <<jk[1], k>> \in SameNamePairs
                                /\ \A m \in (k + 1)..Len(layer_data) : <<jk[1], m>> \notin SameNamePairs
                    entry(j) == IF first.type = "points"
                                THEN tmap_cfg.markerFiles[CountUpTo(j, {"points"})].path
                                ELSE tmap_cfg.layers[CountUpTo(j, {"image", "labels"})].tileSource
                IN  /\ PayloadPath(first) = PayloadPath(later)
                    /\ PayloadPath(later) \in DOMAIN files
                    /\ first.type # "points"
                          => files[PayloadPath(later)].value = layer_data[last].data
                    /\ first.type = "points"
                          => Len(files[PayloadPath(later)].value) = 1 + Len(layer_data[last].data)
                    /\ Cardinality(DOMAIN files) < Len(result.value)
                    /\ entry(jk[1]) = entry(jk[2])
                    /\ result.value[1 + CountUpTo(jk[1], Payloads)]
                          = result.value[1 + CountUpTo(jk[2], Payloads)]
                    /\ NamedBy(result.value[1 + CountUpTo(jk[2], Payloads)], PayloadPath(later))

\* Two image layers named alike, with different pixels, have been saved.
C18_Witness ==
    /\ pc = "done"
    /\ \E jk \in SameNamePairs :
          /\ layer_data[jk[1]].type = "image"
          /\ layer_data[jk[1]].data # layer_data[jk[2]].data
          /\ jk[2] = Len(layer_data)

\* The files the manifest refers to by their path below the project folder,
\* and the tile sources (a file's path followed by ".dzi").
ManifestFiles ==
    {PathJoin(Root, tmap_cfg.markerFiles[j].path) : j \in 1..Len(tmap_cfg.markerFiles)}
        \cup (IF "regionFile" \in DOMAIN tmap_cfg
              THEN {PathJoin(Root, tmap_cfg.regionFile)} ELSE {})

ManifestTiles ==
    {PathJoin(Root, tmap_cfg.layers[j].tileSource) : j \in 1..Len(tmap_cfg.layers)}

\* C19: when an invocation on an empty directory has returned, main.tmap
\* holds the manifest and the files it refers to (every tileSource without
\* its ".dzi", every marker path, the regionFile if any) are the files on
\* disk other than main.tmap; the manifest has a regionFile exactly when
\* regions/regions.json was written.
C19_ManifestMatchesDisk ==
    pc = "done" =>
        LET others == DOMAIN files \ {MainTmap}
        IN  /\ MainTmap \in DOMAIN files
            /\ files[MainTmap].value = tmap_cfg
            /\ ManifestFiles \subseteq others
            /\ \A tile \in ManifestTiles : \E f \in others : f \o ".dzi" = tile
            /\ \A f \in others : f \in ManifestFiles \/ f \o ".dzi" \in ManifestTiles
            /\ ("regionFile" \in DOMAIN tmap_cfg) <=> (RegionsJson \in DOMAIN files)

\* An invocation has returned for a list with an image, points and shapes.
C19_Witness ==
    /\ pc = "done"
    /\ {layer_data[j].type : j \in 1..Len(layer_data)} = {"image", "points", "shapes"}
    /\ Cardinality(DOMAIN files) = 4

\* C17: when dispatching layer i fails, the exception reaches the caller and
\* nothing is undone or tried again: the project folder is there, main.tmap
\* is there and describes every layer of the list, the file of every layer
\* before i is there (whole, unless layer i was being written to the same
\* path), no file exists that only a layer after i would write, and
\* regions.json is not there.
C17_FailureLeavesPrefix ==
    pc = "raised" =>
        LET n == Len(layer_data)
            payload(j) == layer_data[j].type \in Payloads
        IN  /\ result.kind = "exception"
            /\ ~ENABLED NextFail
            /\ Root \in dirs
            /\ MainTmap \in DOMAIN files
            /\ files[MainTmap].value = tmap_cfg
            /\ Len(tmap_cfg.layers) = CountUpTo(n, {"image", "labels"})
            /\ Len(tmap_cfg.markerFiles) = CountUpTo(n, {"points"})
            /\ \A j \in 1..(i - 1) : payload(j) =>
                  /\ PayloadPath(layer_data[j]) \in DOMAIN files
                  /\ (~payload(i) \/ PayloadPath(layer_data[j]) # PayloadPath(layer_data[i]))
                        => files[PayloadPath(layer_data[j])].kind \in {"tif", "csv"}
            /\ \A j \in (i + 1)..n : (payload(j) /\ PayloadPath(layer_data[j]) \in DOMAIN files)
                  => \E m \in 1..i : payload(m) /\ PayloadPath(layer_data[m]) = PayloadPath(layer_data[j])
            /\ RegionsJson \notin DOMAIN files

\* The write of the second of three layers has failed, after an image was
\* saved and a shapes layer was gone through, with a labels layer to come.
C17_Witness ==
    /\ pc = "raised"
    /\ result.value = <<"OSError">>
    /\ Len(layer_data) = 3
    /\ i = 3
    /\ layer_data[1].type = "image"
    /\ layer_data[2].type = "shapes"
    /\ layer_data[3].type = "points"
    /\ Len(layer_data[3].data) > 0

(***************************************************************************)
(* Invocations one after the other                                         *)
(***************************************************************************)

\* The invocation began on a project folder that was missing or empty.
BeganEmpty == disk_before.files = EmptyDict /\ disk_before.dirs \subseteq {Root}

OwnFiles == {WriteOrder(layer_data)[j] : j \in 1..Len(WriteOrder(layer_data))}

\* C20: tmap_writer deletes nothing. Throughout an invocation every
\* folder and file that was there when it began is still there, and every
\* file the invocation does not write itself is unchanged; a project folder
\* that exists makes no invocation fail; when the invocation has returned,
\* main.tmap and its other files hold what this invocation wrote. So the
\* regions.json of an earlier list stays, unchanged, when a list without
\* shapes is saved, although the new manifest has `regions` empty and no
\* `regionFile`.
C20_NothingDeleted ==
    LET first == tmap_writer(save_path, layer_data)
    IN  /\ disk_before.dirs \subseteq dirs
        /\ \A f \in DOMAIN disk_before.files :
              /\ f \in DOMAIN files
              /\ (f \notin OwnFiles \/ pc = "start") => files[f] = disk_before.files[f]
        /\ pc = "raised" => first.raised
        /\ pc = "done" =>
              /\ ~first.raised
              /\ \A f \in OwnFiles : f \in DOMAIN files /\ files[f] = first.files[f]
              /\ DOMAIN files = DOMAIN disk_before.files \cup OwnFiles
        /\ (pc = "done" /\ ShapesLayers = <<>> /\ RegionsJson \in DOMAIN disk_before.files) =>
              /\ files[RegionsJson] = disk_before.files[RegionsJson]
              /\ files[MainTmap].value.regions = EmptyDict
              /\ "regionFile" \notin DOMAIN files[MainTmap].value

\* A list without shapes has been saved into a folder that held the
\* regions.json, an image and the points of earlier invocations.
C20_Witness ==
    /\ pc = "done"
    /\ ShapesLayers = <<>>
    /\ Len(layer_data) > 0
    /\ RegionsJson \in DOMAIN disk_before.files
    /\ \E f \in DOMAIN disk_before.files : f \in OwnFiles /\ files[f] # disk_before.files[f]
    /\ \E f \in DOMAIN disk_before.files : f \notin OwnFiles /\ f # RegionsJson

(***************************************************************************)
(* The earlier revision: paths                                             *)
(***************************************************************************)

\* The text of the path is some text followed by ".tmap".
EndsWithTmap ==
    \E k \in 0..Len(save_path) :
        PathStr(save_path) = JoinChars(SubSeq(save_path, 1, k)) \o ".tmap"

ValuesOf(m) == {layer_data[m].data[p] : p \in 1..Len(layer_data[m].data)}

LabelValues(m) == IF layer_data[m].type = "labels" THEN ValuesOf(m) \ {0} ELSE {}

\* The manifest entries layers 1..m account for: one per image (unless only
\* labels count), one per non-zero unique value of a labels layer.
RECURSIVE EntriesUpTo(_, _)
EntriesUpTo(m, images) ==
    IF m = 0 THEN 0
    ELSE EntriesUpTo(m - 1, images) + Cardinality(LabelValues(m))
            + (IF images /\ layer_data[m].type = "image" THEN 1 ELSE 0)

Palette ==
    <<"100,0,0", "0,100,0", "0,0,100", "100,100,0", "0,100,100", "100,0,100", "100,100,100">>

TwoDigits == <<"00", "01", "02", "03", "04", "05", "06", "07", "08", "09">>

\* Layer m is a labels layer, and none of the same name was dispatched after it.
LastOfName(m) ==
    \A q \in (m + 1)..(i - 1) :
        ~(layer_data[q].type = "labels" /\ layer_data[q].name = layer_data[m].name)

\* C21: in the earlier revision the manifest has one entry per non-zero
\* unique value of every labels layer, in layer order and ascending value,
\* images in between; the entry of a value stands at the position given by
\* the images and label values before it, the keys of layerFilters are the
\* positions 0..k-1, the Color filter at its key is the palette colour
\* n mod 7 where n counts the label entries before it, and its tileSource
\* is labels/<name>_<jj>.tif.dzi with jj the position of the value among all
\* unique values of the raster (0 included); once tmap_writer has dispatched
\* the layer, labels/<name>_<jj>.tif is on disk, holding the mask of that
\* value unless a later labels layer of the same name wrote it again.
C21_LabelEntries ==
    pc \in {"hook_loop", "hook_returned"} =>
        /\ Len(tmap_cfg.layers) = EntriesUpTo(Len(layer_data), TRUE)
        /\ DOMAIN tmap_cfg.layerFilters = {IntToStr(k) : k \in 0..(Len(tmap_cfg.layers) - 1)}
        /\ \A m \in 1..Len(layer_data) : \A v \in LabelValues(m) :
              LET rank == Cardinality({w \in LabelValues(m) : w < v})
                  jj   == TwoDigits[Cardinality({w \in ValuesOf(m) : w < v}) + 1]
                  pos  == EntriesUpTo(m - 1, TRUE) + rank
                  n    == EntriesUpTo(m - 1, FALSE) + rank
                  name == layer_data[m].name
                  tif  == Root \o "/labels/" \o name \o "_" \o jj \o ".tif"
              IN  /\ tmap_cfg.layers[pos + 1] =
                        [name |-> name \o " (" \o Digits[v + 1] \o ")",
                         tileSource |-> "labels/" \o name \o "_" \o jj \o ".tif.dzi"]
                  /\ tmap_cfg.layerFilters[IntToStr(pos)][3] =
                        [name |-> "Color", value |-> Palette[(n % 7) + 1]]
                  /\ m < i =>
                        /\ tif \in DOMAIN files
                        /\ LastOfName(m) => files[tif].value =
                              [p \in 1..Len(layer_data[m].data) |->
                                  IF layer_data[m].data[p] = v THEN 255 ELSE 0]

\* tmap_writer has returned for two labels layers with an image between
\* them: eight label entries, so that the last takes the first colour of
\* the palette again, at key "8".
C21_Witness ==
    /\ pc = "hook_returned"
    /\ Len(layer_data) = 3
    /\ layer_data[2].type = "image"
    /\ Cardinality(LabelValues(1)) = 4
    /\ Cardinality(LabelValues(3)) = 4
    /\ Len(tmap_cfg.layers) = 9
    /\ tmap_cfg.layerFilters["8"][3].value = "100,0,0"

====
